---- MODULE Spec2Model ----
(***************************************************************************)
(* Model of the event scheduler of sechenovpro_bot                         *)
(* (src/src/utils/scheduler.py), of the station fan-out of                 *)
(* src/src/handlers/participant.py and of the clock arithmetic they use.   *)
(*                                                                         *)
(* Time is counted in whole minutes.  The asyncio event loop is modelled   *)
(* by a FIFO queue of runnable scheduler tasks (ready) and by timers that  *)
(* expire in deadline order; coroutines interleave only at their awaits.   *)
(* The tasks one _schedule_all_stations call creates enter the queue as    *)
(* one block, which a loop iteration runs back to back.                    *)
(***************************************************************************)
EXTENDS Integers, Sequences, FiniteSets, TLC

(*************************** configuration *********************************)
\* src/src/bot/config.py
STATION_DURATION_MINUTES == 6
TRANSITION_DURATION_MINUTES == 2
TOTAL_CYCLE_MINUTES == 8
TOTAL_STATIONS == 9

\* Config.TOTAL_EVENT_DURATION_MINUTES, for total_stations stations
TOTAL_EVENT_DURATION_MINUTES(total_stations) ==
    total_stations * STATION_DURATION_MINUTES
        + (total_stations - 1) * TRANSITION_DURATION_MINUTES

(****************************** bounds *************************************)
\* the interleavings of the scheduler are explored for NStations stations in
\* place of Config.TOTAL_STATIONS; the clock arithmetic is checked for both
NStations == 3
\* the clock runs from 0, the instant of the first call, to MaxTime
MaxTime == 8
\* minutes between two observations of the clock
TickMinutes == 2
\* number of start_event / stop_event calls made by the environment
MaxCalls == 3
\* number of timed actions that may be suspended inside their callback at once
MaxInCallback == 1
\* an explicit start_time argument lies so far in the past that the run is
\* PastLead minutes from its end
PastLead == 4

\* the clock arithmetic is checked for the start instants of the ClockSpan
\* minutes before the midnight that ends day ClockDay
ClockSpan == 75
ClockDay == 1

\* the number of active participants of the directory
MaxRecipients == 3
MaxElapsed == 24

\* the furthest in the future, in minutes, a start_time is supplied
MaxAhead == 4

\* the most rows table events gets
MaxEvents == 4

\* the most rows table participants gets
MaxRows == 3

\* Python's None, and a present value x, of an Optional
None == << >>
Some(x) == <<x>>
Val(o) == o[1]

Calls == 1..MaxCalls

EventTypes == {"event_started", "event_stopped", "station_started",
               "transition_started", "event_completed"}

\* the order in which the application registers its callbacks
WiringOrder == <<"station_started", "transition_started", "event_completed",
                 "event_started", "event_stopped">>

\* what an awaited callback does: finish without suspending, suspend at an
\* await of its own, or raise
Outcomes == {"return", "suspend", "raise"}

\* the telegram_id of the active participants
Recipients == 1..MaxRecipients

(**************************** task names ***********************************)
\* f"station_{n}_start", f"station_{n}_transition", "event_completion"
StartName(n) == <<"start", n>>
TransitionName(n) == <<"transition", n>>
CompletionName == <<"completion", 0>>

VARIABLES
    now,               \* datetime.now(), in minutes
    event_start_time,  \* self.event_start_time
    is_running,        \* self.is_running
    current_station,   \* self.current_station
    tasks,             \* self.tasks: task name -> the call whose task object it holds
    callbacks,         \* keys of self.callbacks
    task,              \* every asyncio.Task created so far: <<call, name>> -> record
    ready,             \* the event loop's queue of runnable scheduler tasks, in blocks
    iter,              \* TRUE while a loop iteration is inside the block at the head
    pc,                \* where each start_event / stop_event call stands
    op,                \* which operation each call is
    ret,               \* what each call returned
    curRun,            \* the call that last set is_running to True (0: none yet)
    stoppedAt,         \* for each call's run, the instant stop_event stopped it
    timetable,         \* the last timetable computed by _schedule_all_stations alone
    timing,            \* the last results of get_station_timing, per station
    status,            \* the last result of get_current_status
    participants,      \* the directory: telegram_id -> the participant's current_station
    fan_pc,            \* where broadcast_station_to_all stands
    fan_station,       \* its station_number
    fan_list,          \* the participants it still has to notify, in order
    sent_count,        \* its sent_count
    outcome,           \* what happened to each participant's notification
    fan_ret,           \* the values it returned
    active_event,      \* the registry holds an event with status "active"
    cmd,               \* the last operator command: which one and from whom
    answer,            \* what that command answered
    shown,             \* the status the last /status command showed
    events,            \* table events: the status of each row, in order of insertion
    rows,              \* table participants: its rows, in order of insertion
    registered,        \* what the last create_participant call returned
    cast_pc,           \* where broadcast_to_all_participants stands
    cast_listed,       \* whether its directory query succeeded
    cast_list,         \* its local participants: the list the directory returned
    cast_sent,         \* its sent_count
    cast_failed,       \* its failed_count
    attempts,          \* the sends it attempted, in order: <<telegram_id, delivered>>
    cast_ret,          \* the values it returned
    trans_pc,          \* where broadcast_transition_to_all stands
    trans_to,          \* its to_station
    trans_list,        \* the participants it still has to notify, in order
    trans_sent,        \* its sent_count
    trans_ret          \* the value it returned

vars == <<now, event_start_time, is_running, current_station, tasks, callbacks,
          task, ready, iter, pc, op, ret, curRun, stoppedAt, timetable, timing,
          status, participants, fan_pc, fan_station, fan_list, sent_count, outcome, fan_ret,
          active_event, cmd, answer, shown, events, rows, registered,
          cast_pc, cast_listed, cast_list, cast_sent, cast_failed, attempts, cast_ret,
          trans_pc, trans_to, trans_list, trans_sent, trans_ret>>

schedVars == <<event_start_time, is_running, current_station, tasks, callbacks>>

\* the variables of the scheduler's interleavings
runVars == <<now, event_start_time, is_running, current_station, tasks, callbacks,
             task, ready, iter, pc, op, ret, curRun, stoppedAt>>

\* the variables of the clock arithmetic
clockVars == <<timetable, timing, status>>

\* the variables of the station fan-out
fanVars == <<participants, fan_pc, fan_station, fan_list, sent_count, outcome, fan_ret>>

\* the variables of the operator commands
adminVars == <<active_event, cmd, answer, shown, events, rows, registered>>

\* the tables as create_event and create_participant see them
tableVars == <<events, rows, registered>>

\* the variables of the transition fan-out
transVars == <<trans_pc, trans_to, trans_list, trans_sent, trans_ret>>

\* the variables of the broadcasts that only send: the plain broadcast and
\* the transition fan-out
castVars == <<cast_pc, cast_listed, cast_list, cast_sent, cast_failed, attempts,
             cast_ret, transVars>>

(*********************** _schedule_all_stations ****************************)
\* the loop body of _schedule_all_stations from station_num on, current_time
\* being the loop's accumulator and total_stations Config.TOTAL_STATIONS; the
\* result lists the tasks in creation order
RECURSIVE ScheduleFrom(_, _, _)
\* a timetable whose next station begins when the work of the last one ends
ScheduleFrom_no_transition(station_num, current_time, total_stations) ==
    IF station_num > total_stations THEN << >>
    ELSE LET work_end_time == current_time + STATION_DURATION_MINUTES
             station_start_task ==
                 [name |-> StartName(station_num), fire |-> current_time]
         IN  IF station_num < total_stations
             THEN <<station_start_task,
                    [name |-> TransitionName(station_num), fire |-> work_end_time]>>
                  \o ScheduleFrom(station_num + 1, work_end_time, total_stations)
             ELSE <<station_start_task,
                    [name |-> CompletionName, fire |-> work_end_time]>>

ScheduleFrom(station_num, current_time, total_stations) ==
    IF station_num > total_stations THEN << >>
    ELSE LET work_end_time == current_time + STATION_DURATION_MINUTES
             station_start_task ==
                 [name |-> StartName(station_num), fire |-> current_time]
         IN  IF station_num < total_stations
             THEN <<station_start_task,
                    [name |-> TransitionName(station_num), fire |-> work_end_time]>>
                  \o ScheduleFrom(station_num + 1,
                                  work_end_time + TRANSITION_DURATION_MINUTES,
                                  total_stations)
             ELSE <<station_start_task,
                    [name |-> CompletionName, fire |-> work_end_time]>>

schedule_all_stations(start, total_stations) ==
    IF start = None THEN << >> ELSE ScheduleFrom(1, Val(start), total_stations)

(***************************** helpers *************************************)
Range(s) == {s[i] : i \in DOMAIN s}

RECURSIVE Without(_, _)
\* the sequence s without the elements of set S
Without(s, S) ==
    IF s = << >> THEN << >>
    ELSE IF Head(s) \in S THEN Without(Tail(s), S)
         ELSE <<Head(s)>> \o Without(Tail(s), S)

RECURSIVE WithoutTasks(_, _)
\* the queue q of blocks without the tasks of set S, empty blocks dropped
WithoutTasks(q, S) ==
    IF q = << >> THEN << >>
    ELSE LET b == Without(Head(q), S)
         IN  IF b = << >> THEN WithoutTasks(Tail(q), S)
             ELSE <<b>> \o WithoutTasks(Tail(q), S)

TaskIds == DOMAIN task
Pending(t) == task[t].st \in {"created", "sleeping", "woken"}
\* asyncio.Task.done()
Done(t) == task[t].st \in {"done", "cancelled"}
InCallback == {t \in TaskIds : task[t].st = "callback"}

\* an awaited callback may suspend only while fewer than MaxInCallback do
TaskOutcomes ==
    IF Cardinality(InCallback) < MaxInCallback THEN Outcomes
    ELSE Outcomes \ {"suspend"}

(******************************* Init **************************************)
RunInit ==
    /\ now = 0
    /\ event_start_time = None
    /\ is_running = FALSE
    /\ current_station = 0
    /\ tasks = << >>
    /\ callbacks = {}
    /\ task = << >>
    /\ ready = << >>
    /\ iter = FALSE
    /\ pc = [c \in Calls |-> "idle"]
    /\ op = [c \in Calls |-> "none"]
    /\ ret = [c \in Calls |-> "none"]
    /\ curRun = 0
    /\ stoppedAt = [c \in Calls |-> None]

\* no timetable and no timing computed yet
ClockIdle ==
    /\ timetable = << >>
    /\ timing = << >>
    /\ status = << >>

\* every participant registered at station 0, no fan-out under way
FanIdle ==
    /\ participants = [r \in Recipients |-> 0]
    /\ fan_pc = "idle"
    /\ fan_station = 0
    /\ fan_list = << >>
    /\ sent_count = 0
    /\ outcome = [r \in Recipients |-> "none"]
    /\ fan_ret = None

\* no operator command issued yet, no event in the registry
AdminIdle ==
    /\ active_event = FALSE
    /\ cmd = None
    /\ answer = "none"
    /\ shown = None
    /\ events = << >>
    /\ rows = << >>
    /\ registered = None

\* no plain broadcast and no transition fan-out under way
CastIdle ==
    /\ cast_pc = "idle"
    /\ cast_listed = FALSE
    /\ cast_list = << >>
    /\ cast_sent = 0
    /\ cast_failed = 0
    /\ attempts = << >>
    /\ cast_ret = None
    /\ trans_pc = "idle"
    /\ trans_to = 0
    /\ trans_list = << >>
    /\ trans_sent = 0
    /\ trans_ret = None

Init == RunInit /\ ClockIdle /\ FanIdle /\ AdminIdle /\ CastIdle

(************************** register_callback ******************************)
\* the callbacks are wired before the first start_event / stop_event call, in
\* the order of WiringOrder
register_callback(event_type) ==
    /\ \A c \in Calls : pc[c] = "idle"
    /\ Cardinality(callbacks) < Len(WiringOrder)
    /\ event_type = WiringOrder[Cardinality(callbacks) + 1]
    /\ callbacks' = callbacks \cup {event_type}
    /\ UNCHANGED <<iter, now, event_start_time, is_running, current_station, tasks,
                   task, ready, pc, op, ret, curRun, stoppedAt>>
    /\ UNCHANGED <<clockVars, fanVars, adminVars, castVars>>

(****************************** start_event ********************************)
\* calls begin in the order of their numbers
MayBegin(c) ==
    /\ ~iter
    /\ pc[c] = "idle"
    /\ \A d \in Calls : d < c => pc[d] # "idle"

\* create_task for every entry of the timetable sched, in order, each stored in
\* self.tasks under its name
CreateTasks(c, sched) ==
    LET ids == [i \in DOMAIN sched |-> <<c, sched[i].name>>]
        names == {sched[i].name : i \in DOMAIN sched}
        fireOf == [nm \in names |->
                     sched[CHOOSE i \in DOMAIN sched : sched[i].name = nm].fire]
    IN  /\ task' = [t \in TaskIds \cup Range(ids) |->
                      IF t \in TaskIds THEN task[t]
                      ELSE [fire |-> fireOf[t[2]], st |-> "created", cb |-> FALSE]]
        /\ tasks' = [nm \in DOMAIN tasks \cup names |->
                       IF nm \in names THEN c ELSE tasks[nm]]
        /\ ready' = IF ids = << >> THEN ready ELSE Append(ready, ids)

\* a timetable armed without its completion task
Arm_without_completion(c, start) ==
    LET sched == schedule_all_stations(start, NStations)
    IN  CreateTasks(c, SubSeq(sched, 1, Len(sched) - 1))

\* _schedule_all_stations()
Arm(c, start) == CreateTasks(c, schedule_all_stations(start, NStations))

\* start_event, lines 31-33: the event is already running
StartRejected(c) ==
    /\ ret' = [ret EXCEPT ![c] = "False"]
    /\ pc' = [pc EXCEPT ![c] = "returned"]
    /\ UNCHANGED <<now, event_start_time, is_running, current_station,
                   tasks, callbacks, task, ready, curRun, stoppedAt>>

\* a start that raises its running flag only after the event_started callback
StartAccepted_flag_after_await(c, start_time) ==
    LET start == IF start_time = None THEN Some(now) ELSE start_time
    IN  /\ event_start_time' = start
        /\ current_station' = 0
        /\ curRun' = c
        /\ UNCHANGED <<now, callbacks, stoppedAt>>
        /\ IF "event_started" \in callbacks
           THEN \E o \in Outcomes :
                  CASE o = "suspend" ->
                         /\ pc' = [pc EXCEPT ![c] = "start_cb"]
                         /\ UNCHANGED <<is_running, ret, tasks, task, ready>>
                    [] o = "raise" ->
                         /\ pc' = [pc EXCEPT ![c] = "returned"]
                         /\ ret' = [ret EXCEPT ![c] = "raised"]
                         /\ UNCHANGED <<is_running, tasks, task, ready>>
                    [] OTHER ->
                         /\ is_running' = TRUE
                         /\ Arm(c, start)
                         /\ pc' = [pc EXCEPT ![c] = "returned"]
                         /\ ret' = [ret EXCEPT ![c] = "True"]
           ELSE /\ is_running' = TRUE
                /\ Arm(c, start)
                /\ pc' = [pc EXCEPT ![c] = "returned"]
                /\ ret' = [ret EXCEPT ![c] = "True"]

\* start_event, lines 35-48, up to the first await that suspends
StartAccepted(c, start_time) ==
    LET start == IF start_time = None THEN Some(now) ELSE start_time
    IN  /\ event_start_time' = start
        /\ is_running' = TRUE
        /\ current_station' = 0
        /\ curRun' = c
        /\ UNCHANGED <<now, callbacks, stoppedAt>>
        /\ IF "event_started" \in callbacks
           THEN \E o \in Outcomes :
                  CASE o = "suspend" ->
                         /\ pc' = [pc EXCEPT ![c] = "start_cb"]
                         /\ UNCHANGED <<ret, tasks, task, ready>>
                    [] o = "raise" ->
                         /\ pc' = [pc EXCEPT ![c] = "returned"]
                         /\ ret' = [ret EXCEPT ![c] = "raised"]
                         /\ UNCHANGED <<tasks, task, ready>>
                    [] OTHER ->
                         /\ Arm(c, start)
                         /\ pc' = [pc EXCEPT ![c] = "returned"]
                         /\ ret' = [ret EXCEPT ![c] = "True"]
           ELSE /\ Arm(c, start)
                /\ pc' = [pc EXCEPT ![c] = "returned"]
                /\ ret' = [ret EXCEPT ![c] = "True"]

\* start_event without the check of is_running
start_event_unguarded(c, start_time) ==
    /\ UNCHANGED iter
    /\ MayBegin(c)
    /\ op' = [op EXCEPT ![c] = "start"]
    /\ StartAccepted(c, start_time)
    /\ UNCHANGED <<clockVars, fanVars, adminVars, castVars>>

\* start_event up to its first await that suspends
start_event(c, start_time) ==
    /\ UNCHANGED iter
    /\ MayBegin(c)
    /\ op' = [op EXCEPT ![c] = "start"]
    /\ IF is_running THEN StartRejected(c) ELSE StartAccepted(c, start_time)
    /\ UNCHANGED <<clockVars, fanVars, adminVars, castVars>>

\* start_event resumed when its event_started callback ends
start_event_resume(c) ==
    /\ UNCHANGED iter
    /\ ~iter
    /\ pc[c] = "start_cb"
    /\ pc' = [pc EXCEPT ![c] = "returned"]
    /\ \E o \in {"return", "raise"} :
         IF o = "raise"
         THEN /\ ret' = [ret EXCEPT ![c] = "raised"]
              /\ UNCHANGED <<tasks, task, ready>>
         ELSE /\ Arm(c, event_start_time)
              /\ ret' = [ret EXCEPT ![c] = "True"]
    /\ UNCHANGED <<now, event_start_time, is_running, current_station,
                   callbacks, op, curRun, stoppedAt>>
    /\ UNCHANGED <<clockVars, fanVars, adminVars, castVars>>

(******************************* stop_event ********************************)
\* the task objects self.tasks holds that are not done
NotDoneInTasks == {<<tasks[nm], nm>> : nm \in DOMAIN tasks} \ {t \in TaskIds : Done(t)}

\* stop_event, lines 52-54: no event is running
StopRejected(c) ==
    /\ ret' = [ret EXCEPT ![c] = "False"]
    /\ pc' = [pc EXCEPT ![c] = "returned"]
    /\ UNCHANGED <<now, event_start_time, is_running, current_station,
                   tasks, callbacks, task, ready, curRun, stoppedAt>>

\* stop_event, lines 56-71, up to the first await that suspends; cancelling a
\* task ends it at the await it stands at, be it its sleep or its callback
StopAccepted(c) ==
    /\ is_running' = FALSE
    /\ task' = [t \in TaskIds |->
                  IF t \in NotDoneInTasks
                  THEN [task[t] EXCEPT !.st = "cancelled"]
                  ELSE task[t]]
    /\ ready' = WithoutTasks(ready, NotDoneInTasks)
    /\ tasks' = << >>
    /\ stoppedAt' = [stoppedAt EXCEPT ![curRun] = Some(now)]
    /\ UNCHANGED <<now, event_start_time, current_station, callbacks, curRun>>
    /\ IF "event_stopped" \in callbacks
       THEN \E o \in Outcomes :
              CASE o = "suspend" ->
                     /\ pc' = [pc EXCEPT ![c] = "stop_cb"]
                     /\ UNCHANGED ret
                [] o = "raise" ->
                     /\ pc' = [pc EXCEPT ![c] = "returned"]
                     /\ ret' = [ret EXCEPT ![c] = "raised"]
                [] OTHER ->
                     /\ pc' = [pc EXCEPT ![c] = "returned"]
                     /\ ret' = [ret EXCEPT ![c] = "True"]
       ELSE /\ pc' = [pc EXCEPT ![c] = "returned"]
            /\ ret' = [ret EXCEPT ![c] = "True"]

\* stop_event without the check of is_running
stop_event_unguarded(c) ==
    /\ UNCHANGED iter
    /\ MayBegin(c)
    /\ op' = [op EXCEPT ![c] = "stop"]
    /\ StopAccepted(c)
    /\ UNCHANGED <<clockVars, fanVars, adminVars, castVars>>

\* stop_event up to its first await that suspends
stop_event(c) ==
    /\ UNCHANGED iter
    /\ MayBegin(c)
    /\ op' = [op EXCEPT ![c] = "stop"]
    /\ IF ~is_running THEN StopRejected(c) ELSE StopAccepted(c)
    /\ UNCHANGED <<clockVars, fanVars, adminVars, castVars>>

\* stop_event resumed when its event_stopped callback ends
stop_event_resume(c) ==
    /\ ~iter
    /\ pc[c] = "stop_cb"
    /\ pc' = [pc EXCEPT ![c] = "returned"]
    /\ \E o \in {"return", "raise"} :
         ret' = [ret EXCEPT ![c] = IF o = "raise" THEN "raised" ELSE "True"]
    /\ UNCHANGED <<iter, now, event_start_time, is_running, current_station, tasks,
                   callbacks, task, ready, op, curRun, stoppedAt>>
    /\ UNCHANGED <<clockVars, fanVars, adminVars, castVars>>

(***************************** timed actions *******************************)
\* the callback a timed action awaits
CallbackOf(nm) ==
    CASE nm[1] = "start" -> "station_started"
      [] nm[1] = "transition" -> "transition_started"
      [] OTHER -> "event_completed"

\* a timed action that gives up when it wakes after its fire instant
Fire_skips_late(t) ==
    LET nm == t[2]
    IN  IF ~is_running \/ now > task[t].fire
        THEN /\ task' = [task EXCEPT ![t].st = "done"]
             /\ UNCHANGED <<is_running, current_station>>
        ELSE /\ current_station' =
                    IF nm[1] = "start" THEN nm[2] ELSE current_station
             /\ is_running' = IF nm[1] = "completion" THEN FALSE ELSE is_running
             /\ IF CallbackOf(nm) \in callbacks
                THEN \E o \in TaskOutcomes :
                       task' = [task EXCEPT ![t].cb = TRUE,
                                            ![t].st = IF o = "suspend"
                                                      THEN "callback" ELSE "done"]
                ELSE task' = [task EXCEPT ![t].st = "done"]

\* a timed action whose run ends when its callback raises
Fire_raise_stops_run(t) ==
    LET nm == t[2]
    IN  IF ~is_running
        THEN /\ task' = [task EXCEPT ![t].st = "done"]
             /\ UNCHANGED <<is_running, current_station>>
        ELSE /\ current_station' =
                    IF nm[1] = "start" THEN nm[2] ELSE current_station
             /\ IF CallbackOf(nm) \in callbacks
                THEN \E o \in TaskOutcomes :
                       /\ task' = [task EXCEPT ![t].cb = TRUE,
                                               ![t].st = IF o = "suspend"
                                                         THEN "callback" ELSE "done"]
                       /\ is_running' = IF nm[1] = "completion" \/ o = "raise"
                                        THEN FALSE ELSE is_running
                ELSE /\ task' = [task EXCEPT ![t].st = "done"]
                     /\ is_running' = IF nm[1] = "completion"
                                      THEN FALSE ELSE is_running

\* a timed action of which every kind but the completion moves the cursor
Fire_transition_moves_cursor(t) ==
    LET nm == t[2]
    IN  IF ~is_running
        THEN /\ task' = [task EXCEPT ![t].st = "done"]
             /\ UNCHANGED <<is_running, current_station>>
        ELSE /\ current_station' =
                    IF nm[1] = "completion" THEN current_station ELSE nm[2]
             /\ is_running' = IF nm[1] = "completion" THEN FALSE ELSE is_running
             /\ IF CallbackOf(nm) \in callbacks
                THEN \E o \in TaskOutcomes :
                       task' = [task EXCEPT ![t].cb = TRUE,
                                            ![t].st = IF o = "suspend"
                                                      THEN "callback" ELSE "done"]
                ELSE task' = [task EXCEPT ![t].st = "done"]

\* the part of a timed action after its sleep: the running check, the update
\* of the scheduler and the call of the callback
Fire(t) ==
    LET nm == t[2]
    IN  IF ~is_running
        THEN /\ task' = [task EXCEPT ![t].st = "done"]
             /\ UNCHANGED <<is_running, current_station>>
        ELSE /\ current_station' =
                    IF nm[1] = "start" THEN nm[2] ELSE current_station
             /\ is_running' = IF nm[1] = "completion" THEN FALSE ELSE is_running
             /\ IF CallbackOf(nm) \in callbacks
                THEN \E o \in TaskOutcomes :
                       task' = [task EXCEPT ![t].cb = TRUE,
                                            ![t].st = IF o = "suspend"
                                                      THEN "callback" ELSE "done"]
                ELSE task' = [task EXCEPT ![t].st = "done"]

\* the event loop runs the task at the head of its queue up to its next await
TaskStep ==
    /\ ready # << >>
    /\ LET t == Head(Head(ready))
           rest == Tail(Head(ready))
       IN  /\ ready' = IF rest = << >> THEN Tail(ready)
                       ELSE <<rest>> \o Tail(ready)
           /\ iter' = (rest # << >>)
           /\ IF task[t].st = "created" /\ task[t].fire - now > 0
              THEN /\ task' = [task EXCEPT ![t].st = "sleeping"]
                   /\ UNCHANGED <<is_running, current_station>>
              ELSE Fire(t)
    /\ UNCHANGED <<now, event_start_time, tasks, callbacks, pc, op, ret, curRun,
                   stoppedAt>>
    /\ UNCHANGED <<clockVars, fanVars, adminVars, castVars>>

\* a timer expires: the sleeping task with the earliest deadline is made runnable
TimerWake(t) ==
    /\ UNCHANGED iter
    /\ ~iter
    /\ t \in TaskIds
    /\ task[t].st = "sleeping"
    /\ task[t].fire <= now
    /\ \A u \in TaskIds : task[u].st = "sleeping" => task[t].fire <= task[u].fire
    /\ task' = [task EXCEPT ![t].st = "woken"]
    /\ ready' = Append(ready, <<t>>)
    /\ UNCHANGED <<now, event_start_time, is_running, current_station, tasks,
                   callbacks, pc, op, ret, curRun, stoppedAt>>
    /\ UNCHANGED <<clockVars, fanVars, adminVars, castVars>>

\* the callback of a timed action ends (it returns or raises)
CallbackEnd(t) ==
    /\ ~iter
    /\ t \in TaskIds
    /\ task[t].st = "callback"
    /\ task' = [task EXCEPT ![t].st = "done"]
    /\ UNCHANGED <<iter, now, event_start_time, is_running, current_station, tasks,
                   callbacks, ready, pc, op, ret, curRun, stoppedAt>>
    /\ UNCHANGED <<clockVars, fanVars, adminVars, castVars>>

\* time passes; the clock is counted from the first call
Tick ==
    /\ ~iter
    /\ pc[1] # "idle"
    /\ now < MaxTime
    /\ now' = now + TickMinutes
    /\ UNCHANGED <<iter, event_start_time, is_running, current_station, tasks,
                   callbacks, task, ready, pc, op, ret, curRun, stoppedAt>>
    /\ UNCHANGED <<clockVars, fanVars, adminVars, castVars>>

\* the start_time argument of start_event
StartArgs ==
    {None, Some(now - (TOTAL_EVENT_DURATION_MINUTES(NStations) - PastLead))}

Next ==
    \/ \E e \in EventTypes : register_callback(e)
    \/ \E c \in Calls : \E a \in StartArgs : start_event(c, a)
    \/ \E c \in Calls : start_event_resume(c)
    \/ \E c \in Calls : stop_event(c)
    \/ \E c \in Calls : stop_event_resume(c)
    \/ TaskStep
    \/ \E t \in TaskIds : TimerWake(t)
    \/ \E t \in TaskIds : CallbackEnd(t)
    \/ Tick

Spec == Init /\ [][Next]_vars

\* the event loop keeps running: a runnable task is run, a timer whose deadline
\* has come expires, and time passes; nothing is assumed about a callback
\* ever returning
Fairness ==
    /\ WF_vars(TaskStep)
    /\ WF_vars(Tick)
    /\ \A c \in Calls :
          /\ WF_vars(TimerWake(<<c, CompletionName>>))
          /\ \A n \in 1..NStations :
                /\ WF_vars(TimerWake(<<c, StartName(n)>>))
                /\ WF_vars(TimerWake(<<c, TransitionName(n)>>))

SpecLive == Spec /\ Fairness

(**************************** clock arithmetic *****************************)
\* datetime.strftime("%H:%M") of an instant counted in minutes from a midnight
strftime_HM(t) == <<(t \div 60) % 24, t % 60>>

\* a timing in which the stations follow each other without the transition
get_station_timing_no_cycle(station_num, total_stations) ==
    IF event_start_time = None THEN << >>
    ELSE LET minutes_offset == (station_num - 1) * STATION_DURATION_MINUTES
             station_start == Val(event_start_time) + minutes_offset
             station_end == station_start + STATION_DURATION_MINUTES
             transition_end == station_end + TRANSITION_DURATION_MINUTES
         IN  IF station_num < total_stations
             THEN [start_time |-> strftime_HM(station_start),
                   end_time |-> strftime_HM(station_end),
                   duration |-> STATION_DURATION_MINUTES,
                   transition_end |-> strftime_HM(transition_end),
                   transition_duration |-> TRANSITION_DURATION_MINUTES]
             ELSE [start_time |-> strftime_HM(station_start),
                   end_time |-> strftime_HM(station_end),
                   duration |-> STATION_DURATION_MINUTES]

\* get_station_timing(station_num), total_stations being Config.TOTAL_STATIONS
get_station_timing(station_num, total_stations) ==
    IF event_start_time = None THEN << >>
    ELSE LET minutes_offset == (station_num - 1) * TOTAL_CYCLE_MINUTES
             station_start == Val(event_start_time) + minutes_offset
             station_end == station_start + STATION_DURATION_MINUTES
             transition_end == station_end + TRANSITION_DURATION_MINUTES
         IN  IF station_num < total_stations
             THEN [start_time |-> strftime_HM(station_start),
                   end_time |-> strftime_HM(station_end),
                   duration |-> STATION_DURATION_MINUTES,
                   transition_end |-> strftime_HM(transition_end),
                   transition_duration |-> TRANSITION_DURATION_MINUTES]
             ELSE [start_time |-> strftime_HM(station_start),
                   end_time |-> strftime_HM(station_end),
                   duration |-> STATION_DURATION_MINUTES]

\* the start instants the clock arithmetic is checked for: the minutes of the
\* hour before a midnight, so that a run passes midnight at any of its stations
StartInstants == (ClockDay * 24 * 60 - ClockSpan)..(ClockDay * 24 * 60)

\* a scheduler that has recorded a start instant, or none
ClockInit ==
    /\ now = 0
    /\ event_start_time \in {None} \cup {Some(t) : t \in StartInstants}
    /\ is_running = FALSE
    /\ current_station = 0
    /\ tasks = << >>
    /\ callbacks = {}
    /\ task = << >>
    /\ ready = << >>
    /\ iter = FALSE
    /\ pc = [c \in Calls |-> "idle"]
    /\ op = [c \in Calls |-> "none"]
    /\ ret = [c \in Calls |-> "none"]
    /\ curRun = 0
    /\ stoppedAt = [c \in Calls |-> None]
    /\ ClockIdle
    /\ FanIdle
    /\ AdminIdle
    /\ CastIdle

\* _schedule_all_stations() for n stations
ComputeTimetable(n) ==
    /\ timetable' = [n |-> n, start |-> event_start_time,
                     sched |-> schedule_all_stations(event_start_time, n)]
    /\ UNCHANGED <<runVars, fanVars, adminVars, castVars, timing, status>>

\* get_station_timing(i) for every station i
QueryTimings ==
    /\ timing' = [i \in 1..TOTAL_STATIONS |->
                    get_station_timing(i, TOTAL_STATIONS)]
    /\ UNCHANGED <<runVars, fanVars, adminVars, castVars, timetable, status>>

ClockNext ==
    \/ \E n \in 1..TOTAL_STATIONS : ComputeTimetable(n)
    \/ QueryTimings

SpecClock == ClockInit /\ [][ClockNext]_vars

(**************************** station fan-out ******************************)
RECURSIVE Ascending(_)
\* the elements of a set of numbers as a list
Ascending(S) ==
    IF S = {} THEN << >>
    ELSE LET m == CHOOSE x \in S : \A y \in S : x <= y
         IN  <<m>> \o Ascending(S \ {m})

\* broadcast_station_to_all(station_number) up to its loop: the directory
\* returns the active participants, or no one when its query fails
broadcast_station_to_all(station_number) ==
    /\ fan_pc \in {"idle", "returned"}
    /\ fan_pc' = "loop"
    /\ fan_station' = station_number
    /\ \E ok \in BOOLEAN :
         fan_list' = IF ok THEN Ascending(DOMAIN participants) ELSE << >>
    /\ sent_count' = 0
    /\ outcome' = [r \in Recipients |-> "none"]
    /\ fan_ret' = None
    /\ UNCHANGED <<runVars, clockVars, adminVars, castVars, participants>>

\* send_station_notification(telegram_id, station_number): the send, and after
\* a successful send the directory update; every exception is logged only
send_station_notification(telegram_id, station_number) ==
    \E sent \in BOOLEAN : \E updated \in BOOLEAN :
        /\ outcome' = [outcome EXCEPT ![telegram_id] =
                         IF ~sent THEN "send_failed"
                         ELSE IF updated THEN "sent" ELSE "update_failed"]
        /\ participants' = IF sent /\ updated
                           THEN [participants EXCEPT ![telegram_id] = station_number]
                           ELSE participants

\* one pass of the loop of broadcast_station_to_all
broadcast_station_step ==
    /\ fan_pc = "loop"
    /\ fan_list # << >>
    /\ send_station_notification(Head(fan_list), fan_station)
    /\ sent_count' = sent_count + 1
    /\ fan_list' = Tail(fan_list)
    /\ UNCHANGED <<runVars, clockVars, adminVars, castVars, fan_pc, fan_station, fan_ret>>

\* return sent_count
broadcast_station_return ==
    /\ fan_pc = "loop"
    /\ fan_list = << >>
    /\ fan_pc' = "returned"
    /\ fan_ret' = Some(sent_count)
    /\ UNCHANGED <<runVars, clockVars, adminVars, castVars, participants,
                   fan_station, fan_list, sent_count, outcome>>

FanNext ==
    \/ \E n \in 1..NStations : broadcast_station_to_all(n)
    \/ broadcast_station_step
    \/ broadcast_station_return

SpecFanout == Init /\ [][FanNext]_vars

(***************************** plain broadcast *****************************)
\* broadcast_to_all_participants(message_text) up to its loop: the directory
\* returns the active participants, or no one when its query fails
broadcast_to_all_participants ==
    /\ cast_pc \in {"idle", "returned"}
    /\ cast_pc' = "loop"
    /\ \E ok \in BOOLEAN :
         /\ cast_listed' = ok
         /\ cast_list' = IF ok THEN Ascending(DOMAIN participants) ELSE << >>
    /\ cast_sent' = 0
    /\ cast_failed' = 0
    /\ attempts' = << >>
    /\ cast_ret' = None
    /\ UNCHANGED <<runVars, clockVars, fanVars, adminVars, transVars>>

\* a loop that gives up at the first send that fails
broadcast_to_all_step_aborting ==
    /\ cast_pc = "loop"
    /\ Len(attempts) < Len(cast_list)
    /\ \E delivered \in BOOLEAN :
         /\ attempts' = Append(attempts, <<cast_list[Len(attempts) + 1], delivered>>)
         /\ cast_sent' = IF delivered THEN cast_sent + 1 ELSE cast_sent
         /\ cast_failed' = IF delivered THEN cast_failed ELSE cast_failed + 1
         /\ cast_list' = IF delivered THEN cast_list
                         ELSE SubSeq(cast_list, 1, Len(attempts) + 1)
    /\ UNCHANGED <<runVars, clockVars, fanVars, adminVars, transVars, cast_pc,
                   cast_listed, cast_ret>>

\* one pass of the loop of broadcast_to_all_participants: the send to the
\* next participant succeeds or raises
broadcast_to_all_step ==
    /\ cast_pc = "loop"
    /\ Len(attempts) < Len(cast_list)
    /\ \E delivered \in BOOLEAN :
         /\ attempts' = Append(attempts, <<cast_list[Len(attempts) + 1], delivered>>)
         /\ cast_sent' = IF delivered THEN cast_sent + 1 ELSE cast_sent
         /\ cast_failed' = IF delivered THEN cast_failed ELSE cast_failed + 1
         /\ cast_list' = cast_list
    /\ UNCHANGED <<runVars, clockVars, fanVars, adminVars, transVars, cast_pc,
                   cast_listed, cast_ret>>

\* return sent_count, failed_count
broadcast_to_all_return ==
    /\ cast_pc = "loop"
    /\ Len(attempts) = Len(cast_list)
    /\ cast_pc' = "returned"
    /\ cast_ret' = <<cast_sent, cast_failed>>
    /\ UNCHANGED <<runVars, clockVars, fanVars, adminVars, transVars, cast_listed,
                   cast_list, cast_sent, cast_failed, attempts>>

CastNext ==
    \/ broadcast_to_all_participants
    \/ broadcast_to_all_step
    \/ broadcast_to_all_return

(*************************** transition fan-out ***************************)
\* the variables of the plain broadcast alone
plainVars == <<cast_pc, cast_listed, cast_list, cast_sent, cast_failed, attempts,
              cast_ret>>

\* the station fan-out's variables other than the directory
fanLocals == <<fan_pc, fan_station, fan_list, sent_count, outcome, fan_ret>>

\* broadcast_transition_to_all(from_station, to_station) up to its loop: the
\* directory returns the active participants, or no one when its query fails
broadcast_transition_to_all(from_station, to_station) ==
    /\ trans_pc \in {"idle", "returned"}
    /\ trans_pc' = "loop"
    /\ trans_to' = to_station
    /\ \E ok \in BOOLEAN :
         trans_list' = IF ok THEN Ascending(DOMAIN participants) ELSE << >>
    /\ trans_sent' = 0
    /\ trans_ret' = None
    /\ UNCHANGED <<runVars, clockVars, fanVars, adminVars, plainVars>>

\* a transition notification that also moves the participant in the directory
send_transition_notification_updating(telegram_id, from_station, to_station) ==
    \E sent \in BOOLEAN :
        participants' = IF sent
                        THEN [participants EXCEPT ![telegram_id] = to_station]
                        ELSE participants

\* send_transition_notification(telegram_id, from_station, to_station): the
\* send succeeds or its exception is logged; the directory is not written
send_transition_notification(telegram_id, from_station, to_station) ==
    \E sent \in BOOLEAN : participants' = participants

\* one pass of the loop of broadcast_transition_to_all
broadcast_transition_step ==
    /\ trans_pc = "loop"
    /\ trans_list # << >>
    /\ send_transition_notification(Head(trans_list), trans_to - 1, trans_to)
    /\ trans_sent' = trans_sent + 1
    /\ trans_list' = Tail(trans_list)
    /\ UNCHANGED <<runVars, clockVars, fanLocals, adminVars, plainVars, trans_pc,
                   trans_to, trans_ret>>

\* return sent_count
broadcast_transition_return ==
    /\ trans_pc = "loop"
    /\ trans_list = << >>
    /\ trans_pc' = "returned"
    /\ trans_ret' = Some(trans_sent)
    /\ UNCHANGED <<runVars, clockVars, fanVars, adminVars, plainVars, trans_to,
                   trans_list, trans_sent>>

\* the three broadcasts side by side over one directory
NotifyNext ==
    \/ \E n \in 1..NStations : broadcast_station_to_all(n)
    \/ broadcast_station_step
    \/ broadcast_station_return
    \/ broadcast_to_all_participants
    \/ broadcast_to_all_step
    \/ broadcast_to_all_return
    \/ \E n \in 1..(NStations - 1) : broadcast_transition_to_all(n, n + 1)
    \/ broadcast_transition_step
    \/ broadcast_transition_return

SpecNotify == Init /\ [][NotifyNext]_vars

(*************************** operator commands *****************************)
\* the current_station create_event gives a new event; nothing updates it
EventStation == 1
\* the stations get_event_statistics counts: range(1, 10)
StatStations == 9

\* Config.ADMIN_USERNAMES, and the usernames the commands come from
ADMIN_USERNAMES == {"admin"}
Usernames == {"admin", "@Admin", "guest"}

\* username.lower().strip('@')
Clean(username) == IF username = "@Admin" THEN "admin" ELSE username

\* is_admin(telegram_username)
is_admin(telegram_username) ==
    IF telegram_username = None THEN FALSE
    ELSE Clean(Val(telegram_username)) \in {Clean(a) : a \in ADMIN_USERNAMES}

\* the directory and the registry as the operator finds them: any set of
\* active participants, an active event left in the registry or none
AdminInit ==
    /\ RunInit /\ ClockIdle /\ CastIdle
    /\ participants \in {[r \in S |-> 0] : S \in SUBSET Recipients}
    /\ fan_pc = "idle"
    /\ fan_station = 0
    /\ fan_list = << >>
    /\ sent_count = 0
    /\ outcome = [r \in Recipients |-> "none"]
    /\ fan_ret = None
    /\ active_event \in BOOLEAN
    /\ cmd = None
    /\ answer = "none"
    /\ shown = None
    /\ events = << >>
    /\ rows = << >>
    /\ registered = None

\* cmd_start_event(message), username being message.from_user.username; a
\* directory or registry query that fails returns nothing; the scheduler has
\* no attribute setup_event_schedule, so line 81 raises AttributeError, which
\* the handler's except clause answers
cmd_start_event(username) ==
    /\ cmd' = [op |-> "start_event", user |-> username]
    /\ IF username = None
       THEN answer' = "need_username" /\ UNCHANGED active_event
       ELSE IF ~is_admin(username)
       THEN answer' = "not_admin" /\ UNCHANGED active_event
       ELSE \E found \in BOOLEAN : \E listed \in BOOLEAN :
            \E deactivated \in BOOLEAN : \E created \in BOOLEAN :
              LET existing_event == found /\ active_event
                  listing == IF listed THEN Ascending(DOMAIN participants)
                             ELSE << >>
              IN  IF existing_event
                  THEN answer' = "already_active" /\ UNCHANGED active_event
                  ELSE IF listing = << >>
                  THEN answer' = "no_participants" /\ UNCHANGED active_event
                  ELSE IF ~created
                  THEN /\ answer' = "create_failed"
                       /\ active_event' = (active_event /\ ~deactivated)
                  ELSE /\ answer' = "start_error"
                       /\ active_event' = TRUE
    /\ UNCHANGED <<runVars, clockVars, fanVars, castVars, shown, tableVars>>

\* cmd_status(message): the statistics come from get_event_statistics, which
\* looks the active event up, counts the participants of every station in
\* range(1, 10) with one query each (a failed query counts none) and looks
\* the event up again for the station and the status it reports
cmd_status(username) ==
    /\ cmd' = [op |-> "status", user |-> username]
    /\ UNCHANGED <<active_event, runVars, clockVars, fanVars, castVars, tableVars>>
    /\ IF username = None
       THEN answer' = "need_username" /\ UNCHANGED shown
       ELSE IF ~is_admin(username)
       THEN answer' = "not_admin" /\ UNCHANGED shown
       ELSE \E found \in BOOLEAN : \E again \in BOOLEAN :
              IF ~(found /\ active_event)
              THEN answer' = "no_data" /\ UNCHANGED shown
              ELSE /\ answer' = "status"
                   /\ shown' =
                        [current_station |-> IF again THEN EventStation ELSE 0,
                         station_queries |-> [i \in 1..StatStations |-> i],
                         station_distribution |->
                             [i \in 1..StatStations |->
                                Cardinality({r \in DOMAIN participants :
                                               participants[r] = i})]]

\* the number of attempts of a broadcast that were delivered, or were not
CountOf(atts, delivered) ==
    Cardinality({i \in DOMAIN atts : atts[i][2] = delivered})

\* a whole call of broadcast_to_all_participants, from the directory query to
\* the return, as a handler awaits it
broadcast_to_all_whole ==
    \E ok \in BOOLEAN :
      LET listing == IF ok THEN Ascending(DOMAIN participants) ELSE << >>
      IN  \E delivered \in [Range(listing) -> BOOLEAN] :
            LET atts == [i \in DOMAIN listing |->
                           <<listing[i], delivered[listing[i]]>>]
            IN  /\ cast_pc' = "returned"
                /\ cast_listed' = ok
                /\ cast_list' = listing
                /\ attempts' = atts
                /\ cast_sent' = CountOf(atts, TRUE)
                /\ cast_failed' = CountOf(atts, FALSE)
                /\ cast_ret' = <<CountOf(atts, TRUE), CountOf(atts, FALSE)>>
                /\ UNCHANGED transVars

\* a stop command that does not look at who sent it
cmd_stop_event_unchecked(username) ==
    /\ cmd' = [op |-> "stop_event", user |-> username]
    /\ UNCHANGED <<shown, clockVars, fanVars, tableVars>>
    /\ \E found \in BOOLEAN : \E updated \in BOOLEAN :
         IF ~(found /\ active_event)
         THEN /\ answer' = "no_active_event"
              /\ UNCHANGED <<active_event, runVars, castVars>>
         ELSE /\ ~is_running
              /\ UNCHANGED runVars
              /\ active_event' = ~updated
              /\ broadcast_to_all_whole
              /\ answer' = "stopped"

\* cmd_stop_event(message): scheduler.stop_event() finds a scheduler that is
\* not running and returns False; the registry update may fail; the stop is
\* then broadcast to the participants
cmd_stop_event(username) ==
    /\ cmd' = [op |-> "stop_event", user |-> username]
    /\ UNCHANGED <<shown, clockVars, fanVars, tableVars>>
    /\ IF username = None
       THEN /\ answer' = "need_username"
            /\ UNCHANGED <<active_event, runVars, castVars>>
       ELSE IF ~is_admin(username)
       THEN /\ answer' = "not_admin"
            /\ UNCHANGED <<active_event, runVars, castVars>>
       ELSE \E found \in BOOLEAN : \E updated \in BOOLEAN :
              IF ~(found /\ active_event)
              THEN /\ answer' = "no_active_event"
                   /\ UNCHANGED <<active_event, runVars, castVars>>
              ELSE /\ ~is_running
                   /\ UNCHANGED runVars
                   /\ active_event' = ~updated
                   /\ broadcast_to_all_whole
                   /\ answer' = "stopped"

\* cmd_report(message): the export lists the active participants, or nothing
\* when its query fails; the report is sent as a document
cmd_report(username) ==
    /\ cmd' = [op |-> "report", user |-> username]
    /\ UNCHANGED <<active_event, shown, runVars, clockVars, fanVars, castVars,
                   tableVars>>
    /\ IF username = None
       THEN answer' = "need_username"
       ELSE IF ~is_admin(username)
       THEN answer' = "not_admin"
       ELSE \E listed \in BOOLEAN :
              answer' = IF listed /\ DOMAIN participants # {}
                        THEN "report" ELSE "no_data"

AdminNext ==
    \E u \in {None} \cup {Some(n) : n \in Usernames} :
       \/ cmd_start_event(u)
       \/ cmd_status(u)
       \/ cmd_stop_event(u)
       \/ cmd_report(u)

SpecAdmin == AdminInit /\ [][AdminNext]_vars

\* plain broadcasts over the directory as it is found
SpecCast == AdminInit /\ [][CastNext]_vars

(***************************** run registry ********************************)
\* the rows of table events whose status is "active"
ActiveEvents(evs) == {i \in DOMAIN evs : evs[i] = "active"}

\* the update of _deactivate_previous_events: every active row becomes
\* completed
Deactivated(evs) ==
    [i \in DOMAIN evs |-> IF evs[i] = "active" THEN "completed" ELSE evs[i]]

\* create_event(admin_id): _deactivate_previous_events updates the active
\* rows or logs its exception, and its result is not looked at; then the
\* insert of a row with status active succeeds or fails
create_event ==
    /\ Len(events) < MaxEvents
    /\ \E deactivated \in BOOLEAN : \E inserted \in BOOLEAN :
         LET previous == IF deactivated THEN Deactivated(events) ELSE events
         IN  events' = IF inserted THEN Append(previous, "active") ELSE previous
    /\ UNCHANGED <<runVars, clockVars, fanVars, castVars, active_event, cmd,
                   answer, shown, rows, registered>>

\* the update of complete_event and of stop_event of the queries: the row
\* with the id given gets the status, whatever status it had, or the update
\* fails
update_event_status(event_id, new_status) ==
    /\ event_id \in DOMAIN events
    /\ \E updated \in BOOLEAN :
         events' = IF updated THEN [events EXCEPT ![event_id] = new_status]
                   ELSE events
    /\ UNCHANGED <<runVars, clockVars, fanVars, castVars, active_event, cmd,
                   answer, shown, rows, registered>>

\* complete_event(event_id)
complete_event(event_id) == update_event_status(event_id, "completed")

\* stop_event(event_id) of the queries
db_stop_event(event_id) == update_event_status(event_id, "stopped")

RegistryNext ==
    \/ create_event
    \/ \E id \in 1..MaxEvents : complete_event(id)
    \/ \E id \in 1..MaxEvents : db_stop_event(id)

SpecRegistry == Init /\ [][RegistryNext]_vars

(**************************** registration *********************************)
\* get_participant_by_telegram_id(telegram_id) on a table: the first row
\* with that id, or None
get_participant_by_telegram_id(table, telegram_id) ==
    LET found == {i \in DOMAIN table : table[i].telegram_id = telegram_id}
    IN  IF found = {} THEN None
        ELSE Some(table[CHOOSE i \in found : \A j \in found : i <= j])

\* _get_next_participant_number() on a table: the highest number plus one,
\* 1 for an empty table
get_next_participant_number(table) ==
    IF table = << >> THEN 1
    ELSE LET numbers == {table[i].participant_number : i \in DOMAIN table}
         IN  (CHOOSE n \in numbers : \A m \in numbers : m <= n) + 1

\* create_participant(telegram_id, ...): the query for an existing row and
\* the query for the highest number each succeed or fail (a failed one
\* returns None, respectively 1), and the insert succeeds or fails
create_participant(telegram_id) ==
    /\ Len(rows) < MaxRows
    /\ \E looked \in BOOLEAN : \E numbered \in BOOLEAN : \E inserted \in BOOLEAN :
         LET existing == IF looked
                         THEN get_participant_by_telegram_id(rows, telegram_id)
                         ELSE None
             participant_number == IF numbered
                                   THEN get_next_participant_number(rows)
                                   ELSE 1
             data == [telegram_id |-> telegram_id,
                      participant_number |-> participant_number]
         IN  IF existing # None
             THEN /\ registered' = [telegram_id |-> telegram_id, result |-> existing]
                  /\ rows' = rows
             ELSE IF inserted
             THEN /\ rows' = Append(rows, data)
                  /\ registered' = [telegram_id |-> telegram_id, result |-> Some(data)]
             ELSE /\ rows' = rows
                  /\ registered' = [telegram_id |-> telegram_id, result |-> None]
    /\ UNCHANGED <<runVars, clockVars, fanVars, castVars, active_event, cmd,
                   answer, shown, events>>

RegistrationNext == \E id \in Recipients : create_participant(id)

SpecRegistration == Init /\ [][RegistrationNext]_vars

(******************************* status ************************************)
\* datetime.strftime("%H:%M:%S") of an instant of whole minutes
strftime_HMS(t) == <<(t \div 60) % 24, t % 60, 0>>

\* Python's max
Max(a, b) == IF a >= b THEN a ELSE b

\* the status shape of a scheduler that is not running
IdleStatus ==
    [is_running |-> FALSE, current_station |-> 0,
     elapsed_minutes |-> 0, remaining_minutes |-> 0]

\* a status that reports the cursor although the scheduler is not running
get_current_status_keeps_cursor ==
    IF ~is_running \/ event_start_time = None
    THEN [is_running |-> FALSE, current_station |-> current_station,
          elapsed_minutes |-> 0, remaining_minutes |-> 0]
    ELSE IdleStatus

\* get_current_status(); progress_percentage is the exact quotient
\* <<numerator, denominator>> of the float the code computes
get_current_status ==
    IF ~is_running \/ event_start_time = None
    THEN IdleStatus
    ELSE LET elapsed == now - Val(event_start_time)
             total_duration == TOTAL_EVENT_DURATION_MINUTES(NStations)
             remaining == Max(0, total_duration - elapsed)
         IN  [is_running |-> is_running,
              current_station |-> current_station,
              elapsed_minutes |-> elapsed,
              remaining_minutes |-> remaining,
              start_time |-> strftime_HMS(Val(event_start_time)),
              progress_percentage |->
                  IF elapsed >= total_duration THEN <<100, 1>>
                  ELSE <<elapsed * 100, total_duration>>]

(***************************** status reads ********************************)
\* the scheduler caught between two steps of a run of call 1 that began
\* elapsed minutes ago (a negative elapsed: start_event was given a start_time
\* in the future): the timed actions whose instant has come have fired,
\* the others sleep, or are cancelled when stop_event has just stopped the run
Snapshot(elapsed, stopped, wired) ==
    LET start == now - elapsed
        sched == schedule_all_stations(Some(start), NStations)
        fireOf == [i \in DOMAIN sched |-> sched[i].fire]
        names == {sched[i].name : i \in DOMAIN sched}
        due == {sched[i].name : i \in {j \in DOMAIN sched : fireOf[j] <= now}}
        completed == CompletionName \in due
    IN  /\ event_start_time = Some(start)
        /\ is_running = (~completed /\ ~stopped)
        /\ current_station = Cardinality({nm \in due : nm[1] = "start"})
        /\ callbacks = IF wired THEN Range(WiringOrder) ELSE {}
        /\ task = [t \in {<<1, nm>> : nm \in names} |->
                     LET f == sched[CHOOSE i \in DOMAIN sched :
                                      sched[i].name = t[2]].fire
                     IN  IF t[2] \in due
                         THEN [fire |-> f, st |-> "done",
                               cb |-> wired /\ CallbackOf(t[2]) \in Range(WiringOrder)]
                         ELSE [fire |-> f,
                               st |-> IF stopped THEN "cancelled" ELSE "sleeping",
                               cb |-> FALSE]]
        /\ tasks = IF stopped /\ ~completed THEN << >>
                   ELSE [nm \in names |-> 1]
        /\ op = [c \in Calls |-> IF c = 1 THEN "start"
                                  ELSE IF c = 2 /\ stopped /\ ~completed
                                       THEN "stop" ELSE "none"]
        /\ pc = [c \in Calls |-> IF op[c] = "none" THEN "idle" ELSE "returned"]
        /\ ret = [c \in Calls |-> IF op[c] = "none" THEN "none" ELSE "True"]
        /\ curRun = 1
        /\ stoppedAt = [c \in Calls |-> IF c = 1 /\ stopped /\ ~completed
                                         THEN Some(now) ELSE None]
        /\ ready = << >>
        /\ iter = FALSE

\* the scheduler never started, or caught in a run
ReadInit ==
    /\ ClockIdle /\ FanIdle /\ AdminIdle /\ CastIdle
    /\ \/ RunInit
       \/ /\ now \in {t \in 0..MaxTime : t % TickMinutes = 0}
          /\ \E elapsed \in (0 - MaxAhead)..MaxElapsed : \E stopped, wired \in BOOLEAN :
                Snapshot(elapsed, stopped, wired)

\* a status read that writes the station it reports back into the scheduler
read_current_status_resetting ==
    /\ status' = get_current_status
    /\ current_station' = get_current_status.current_station
    /\ UNCHANGED <<now, event_start_time, is_running, tasks, callbacks, task,
                   ready, iter, pc, op, ret, curRun, stoppedAt>>
    /\ UNCHANGED <<timetable, timing, fanVars, adminVars, castVars>>

\* a call of get_current_status()
read_current_status ==
    /\ status' = get_current_status
    /\ UNCHANGED <<runVars, timetable, timing, fanVars, adminVars, castVars>>

ReadNext ==
    \/ read_current_status
    \/ QueryTimings

SpecRead == ReadInit /\ [][ReadNext]_vars

(***************************************************************************)
(* Claims                                                                  *)
(***************************************************************************)
\* the run a timed action belongs to is the start_event call that armed it
RunOf(t) == t[1]
StoppedBeforeFire(t) ==
    /\ stoppedAt[RunOf(t)] # None
    /\ task[t].fire > Val(stoppedAt[RunOf(t)])
\* t's callback is invoked in this step
Invoked(t) == ~task[t].cb /\ task'[t].cb

\* C1: once stop_event() has been called on a running event, no callback of a
\* timed action of that run whose fire instant is later than the stop call is
\* invoked afterwards, whatever the interleaving of start_event, stop_event
\* and timer wake-ups, restarts included.
C1_NoCallbackAfterStop ==
    [][\A t \in TaskIds : Invoked(t) => ~StoppedBeforeFire(t)]_vars

\* call c begins in this step, as a start_event / as a stop_event
StartBegins(c) == pc[c] = "idle" /\ op'[c] = "start"
StopBegins(c) == pc[c] = "idle" /\ op'[c] = "stop"

\* C2: start_event() called while the scheduler is running returns False and
\* changes nothing: event_start_time, is_running, current_station, self.tasks
\* and the tasks themselves are unchanged, no task is created and no callback
\* is invoked.
C2_StartWhileRunningIsNoOp ==
    [][\A c \in Calls :
         (StartBegins(c) /\ is_running) =>
            /\ ret'[c] = "False"
            /\ pc'[c] = "returned"
            /\ UNCHANGED <<event_start_time, is_running, current_station,
                           tasks, task, ready, callbacks>>]_vars

\* a start_event call was made on a running scheduler and has returned
C2_Witness ==
    \E c \in Calls : op[c] = "start" /\ ret[c] = "False" /\ is_running

\* C3: stop_event() called while the scheduler is not running (never started,
\* stopped, or completed) returns False and changes nothing: event_start_time,
\* is_running, current_station and self.tasks are unchanged, no task is
\* cancelled and the event_stopped callback is not invoked.
C3_StopWhileNotRunningIsNoOp ==
    [][\A c \in Calls :
         (StopBegins(c) /\ ~is_running) =>
            /\ ret'[c] = "False"
            /\ pc'[c] = "returned"
            /\ UNCHANGED <<event_start_time, is_running, current_station,
                           tasks, task, ready, callbacks>>]_vars

\* a stop_event call was rejected after the event had completed by itself,
\* self.tasks still holding the tasks of the completed run
C3_Witness ==
    \E c \in Calls :
        /\ op[c] = "stop" /\ ret[c] = "False"
        /\ "event_stopped" \in callbacks
        /\ DOMAIN tasks # {}
        /\ \E t \in TaskIds : t[2] = CompletionName /\ task[t].cb
(* the fire instants a computed timetable holds for the action named nm *)
FiresOf(sched, nm) == {sched[i].fire : i \in {j \in DOMAIN sched : sched[j].name = nm}}

Computed == timetable # << >> /\ timetable.start # None

\* C4: in a timetable computed for start instant T and N stations, StationStart(n)
\* is armed for T + (n-1)*(sd+td) for every n in 1..N, TransitionStart(n, n+1)
\* for T + (n-1)*(sd+td) + sd for every n in 1..N-1, EventComplete for
\* T + N*sd + (N-1)*td, and nothing else is armed; with sd=6, td=2, N=9 that is
\* station 1 at T, transition 1->2 at T+6, station 2 at T+8, station 9 at T+64
\* and completion at T+70, a total duration of 70.
C4_FireInstants ==
    Computed =>
        LET T == Val(timetable.start)
            N == timetable.n
            sd == STATION_DURATION_MINUTES
            td == TRANSITION_DURATION_MINUTES
            sched == timetable.sched
        IN  /\ \A n \in 1..N :
                  FiresOf(sched, StartName(n)) = {T + (n - 1) * (sd + td)}
            /\ \A n \in 1..(N - 1) :
                  FiresOf(sched, TransitionName(n)) = {T + (n - 1) * (sd + td) + sd}
            /\ FiresOf(sched, CompletionName) = {T + N * sd + (N - 1) * td}
            /\ TOTAL_EVENT_DURATION_MINUTES(N) = N * sd + (N - 1) * td
            /\ Len(sched) = 2 * N
            /\ (N = 9 /\ sd = 6 /\ td = 2) =>
                  /\ FiresOf(sched, StartName(1)) = {T}
                  /\ FiresOf(sched, TransitionName(1)) = {T + 6}
                  /\ FiresOf(sched, StartName(2)) = {T + 8}
                  /\ FiresOf(sched, StartName(9)) = {T + 64}
                  /\ FiresOf(sched, CompletionName) = {T + 70}
                  /\ TOTAL_EVENT_DURATION_MINUTES(N) = 70

C4_Witness ==
    /\ Computed
    /\ timetable.n = TOTAL_STATIONS
    /\ Len(timetable.sched) = 2 * TOTAL_STATIONS
    /\ TOTAL_STATIONS = 9

(* the minute of the day a formatted "%H:%M" time names, and the time of day *)
(* d minutes after the time of day m                                          *)
MinuteOfDay(hm) == hm[1] * 60 + hm[2]
ClockPlus(m, d) == (m + d) % (24 * 60)

Timed == timing # << >> /\ event_start_time # None

\* C9: in the timings get_station_timing returns for one start instant, read as
\* times of day, every station i in 1..N ends station_duration after it starts,
\* for every i < N station i+1 starts transition_duration after station i ends
\* and transition_end(i) is the start of station i+1, and the timing of station
\* N holds no transition_end.
C9_TimingsChain ==
    Timed =>
        LET N == TOTAL_STATIONS
            start(i) == MinuteOfDay(timing[i].start_time)
            end(i) == MinuteOfDay(timing[i].end_time)
        IN  /\ \A i \in 1..N :
                  end(i) = ClockPlus(start(i), STATION_DURATION_MINUTES)
            /\ \A i \in 1..(N - 1) :
                  /\ start(i + 1) = ClockPlus(end(i), TRANSITION_DURATION_MINUTES)
                  /\ "transition_end" \in DOMAIN timing[i]
                  /\ timing[i].transition_end = timing[i + 1].start_time
            /\ "transition_end" \notin DOMAIN timing[N]
            /\ DOMAIN timing[N] = {"start_time", "end_time", "duration"}

\* a run whose timings pass midnight
C9_Witness ==
    /\ Timed
    /\ \E i \in 1..(TOTAL_STATIONS - 1) :
          MinuteOfDay(timing[i + 1].start_time) < MinuteOfDay(timing[i].start_time)
    /\ "transition_end" \notin DOMAIN timing[TOTAL_STATIONS]

\* C8: whenever the scheduler is not running, get_current_status() returns
\* is_running = false, current_station = 0, elapsed_minutes = 0 and
\* remaining_minutes = 0 and nothing else, whatever event_start_time and the
\* cursor hold.
C8_IdleStatusIsZero ==
    ~is_running =>
        /\ get_current_status.is_running = FALSE
        /\ get_current_status.current_station = 0
        /\ get_current_status.elapsed_minutes = 0
        /\ get_current_status.remaining_minutes = 0
        /\ DOMAIN get_current_status =
             {"is_running", "current_station", "elapsed_minutes", "remaining_minutes"}

\* not running after a natural completion, the cursor at the last station, a
\* start instant recorded and time elapsed since
C8_Witness ==
    /\ ~is_running
    /\ current_station = NStations
    /\ event_start_time # None
    /\ now > Val(event_start_time)
    /\ \E t \in TaskIds : t[2] = CompletionName /\ task[t].st = "done" /\ task[t].cb

(* call 1 is a start_event on the idle scheduler, suspended in its callback *)
FirstSuspended == op[1] = "start" /\ pc[1] = "start_cb"

\* C6: when a second start_event() begins while the first, issued on the idle
\* scheduler, is suspended in its event_started callback, the second returns
\* False and arms nothing, and the first, when its callback returns, returns
\* True and arms one timetable of 2N timed actions, so that one call returns
\* True, the other False, and no timed action belongs to the second call.
C6_ConcurrentStartsArmOnce ==
    [][/\ (FirstSuspended /\ StartBegins(2)) =>
            /\ ret'[2] = "False"
            /\ pc'[2] = "returned"
            /\ UNCHANGED <<event_start_time, is_running, current_station,
                           tasks, task, ready>>
       /\ (FirstSuspended /\ op[2] = "start" /\ ret'[1] = "True") =>
            /\ ret[2] = "False"
            /\ Cardinality(DOMAIN task' \ DOMAIN task) = 2 * NStations
            /\ \A t \in DOMAIN task' \ DOMAIN task : RunOf(t) = 1
            /\ \A t \in DOMAIN task' : RunOf(t) # 2]_vars

\* the second call has returned False while the first is still suspended in
\* its callback, nothing armed yet; the first is about to resume
C6_Witness ==
    /\ FirstSuspended
    /\ op[2] = "start" /\ ret[2] = "False" /\ pc[2] = "returned"
    /\ is_running
    /\ TaskIds = {}
    /\ ENABLED start_event_resume(1)

\* C7: in every reachable state all timed actions that have not finished belong
\* to one single run, a new start_event() having cancelled those of an earlier
\* run; in particular when stop_event() ran while the earlier start_event() was
\* suspended in its event_started callback and had not armed its actions.
C7_OneRunPending ==
    \A t, u \in TaskIds : (~Done(t) /\ ~Done(u)) => RunOf(t) = RunOf(u)

\* C10: from a successful start_event() until the next stop or natural
\* completion, that is in every step that begins and ends with the scheduler
\* running, current_station does not decrease.
C10_CursorNeverDecreases ==
    [][(is_running /\ is_running') => current_station' >= current_station]_vars

(* the participants whose notification ended as o in the finished fan-out *)
Ended(o) == {r \in Recipients : outcome[r] = o}
Notified == {r \in Recipients : outcome[r] # "none"}

(* the success count the fan-out returned, and the failure count it returned, *)
(* a fan-out that returns no failure count reporting no failure               *)
ReportedSuccess == fan_ret[1]
ReportedFailure == IF Len(fan_ret) >= 2 THEN fan_ret[2] ELSE 0

\* C5: a finished station fan-out in which no directory write failed reports
\* as success the number of sends that succeeded and as failure the number of
\* sends that failed, and the directory holds the new station for every
\* recipient, also for those whose send failed.
C5_FanoutCountsAndSetsAll ==
    (fan_pc = "returned" /\ Ended("update_failed") = {}) =>
        /\ ReportedSuccess = Cardinality(Ended("sent"))
        /\ ReportedFailure = Cardinality(Ended("send_failed"))
        /\ \A r \in Notified : participants[r] = fan_station

(* the run of call c was never stopped, and the callbacks of its timed       *)
(* actions are wired                                                          *)
NeverStopped(c) == stoppedAt[c] = None
Wired == {"station_started", "transition_started"} \subseteq callbacks

(* the callback of the timed action nm of run c has been invoked *)
Fired(c, nm) == <<c, nm>> \in TaskIds /\ task[<<c, nm>>].cb

(* the invocation of t comes in the order of the stations of its run *)
InStationOrder(t) ==
    LET c == RunOf(t)
        n == t[2][2]
    IN  CASE t[2][1] = "start" ->
               /\ \A m \in 1..(n - 1) :
                     Fired(c, StartName(m)) /\ Fired(c, TransitionName(m))
               /\ \A m \in (n + 1)..NStations : ~Fired(c, StartName(m))
          [] t[2][1] = "transition" ->
               /\ Fired(c, StartName(n))
               /\ ~Fired(c, StartName(n + 1))
          [] OTHER -> TRUE

\* C11: in a run that is never stopped, station_started is invoked for the
\* stations 1, 2, ..., N in that order, none skipped (no timed action of the
\* run ends without having invoked its callback) and none repeated, and
\* transition_started(n, n+1) is invoked after station_started(n) and before
\* station_started(n+1), also when the start instant lies in the past.
C11_StationsInOrder ==
    [][Wired =>
         /\ \A t \in TaskIds :
               (Invoked(t) /\ NeverStopped(RunOf(t))) => InStationOrder(t)
         /\ \A t \in TaskIds :
               (NeverStopped(RunOf(t)) /\ task[t].st # "done" /\ task'[t].st = "done"
                  /\ t[2][1] # "completion")
               => task'[t].cb]_vars

\* C12: a callback invocation in progress is never interrupted: a timed action
\* that stands inside its callback stays there until the callback ends, also
\* when stop_event() is called meanwhile.
C12_CallbackRunsToItsEnd ==
    [][\A t \in TaskIds :
         task[t].st = "callback" => task'[t].st \in {"callback", "done"}]_vars

(* this step is a start command of an authorized operator, issued while the  *)
(* registry holds no active event                                            *)
AuthorizedStart ==
    /\ cmd' # None
    /\ cmd'.op = "start_event"
    /\ is_admin(cmd'.user)
    /\ ~active_event

(* after this step the scheduler is running with its full timetable armed *)
RunningArmed ==
    /\ is_running'
    /\ Cardinality(DOMAIN tasks') = 2 * NStations
    /\ Cardinality({t \in DOMAIN task' : task'[t].st \notin {"done", "cancelled"}})
         = 2 * NStations

\* C13: after the start command of an authorized operator, issued while no
\* event is active and at least one participant is registered, and having
\* created its registry event, the scheduler is running with its full timetable
\* armed and the station-start, transition-start and event-complete callbacks
\* wired.
C13_StartCommandArmsAndWires ==
    [][(AuthorizedStart /\ DOMAIN participants # {} /\ active_event') =>
         /\ RunningArmed
         /\ {"station_started", "transition_started", "event_completed"}
              \subseteq callbacks']_vars

\* C14: the start command of an authorized operator, issued while no event is
\* active and no participant is registered, succeeds: the scheduler is running
\* with its full timetable armed.
C14_StartWithoutParticipants ==
    [][(AuthorizedStart /\ DOMAIN participants = {}) =>
         /\ RunningArmed
         /\ answer' \notin {"no_participants", "start_error"}]_vars

(* the offset of the timed action nm from the start instant of its timetable *)
OffsetOf(nm) ==
    CASE nm[1] = "start" ->
           (nm[2] - 1) * (STATION_DURATION_MINUTES + TRANSITION_DURATION_MINUTES)
      [] nm[1] = "transition" ->
           (nm[2] - 1) * (STATION_DURATION_MINUTES + TRANSITION_DURATION_MINUTES)
             + STATION_DURATION_MINUTES
      [] OTHER -> TOTAL_EVENT_DURATION_MINUTES(NStations)

(* in this step the timed action t runs the part after its sleep *)
RunsAfterSleep(t) ==
    /\ task[t].st \in {"created", "woken"}
    /\ task'[t].st \in {"callback", "done"}

\* C15: a timed action that runs later than its fire instant while the
\* scheduler is running invokes its callback in that very step, and fire
\* instants depend on the captured start instant only: an action is armed for
\* the start instant plus its offset, and no fire instant ever changes.
C15_LateActionStillFires ==
    [][/\ \A t \in TaskIds :
            (RunsAfterSleep(t) /\ now > task[t].fire /\ is_running
               /\ CallbackOf(t[2]) \in callbacks)
            => Invoked(t)
       /\ \A t \in TaskIds : task'[t].fire = task[t].fire
       /\ \A t \in DOMAIN task' \ TaskIds :
            /\ event_start_time' # None
            /\ task'[t].fire = Val(event_start_time') + OffsetOf(t[2])]_vars

\* a timed action that slept has been woken after its fire instant, the
\* scheduler still running and its callback wired, another action of its run
\* still asleep
C15_Witness ==
    \E t, u \in TaskIds :
        /\ task[t].st = "woken"
        /\ now > task[t].fire
        /\ is_running
        /\ CallbackOf(t[2]) \in callbacks
        /\ RunOf(u) = RunOf(t)
        /\ task[u].st = "sleeping"

(* the participants a broadcast attempted, in order, and the attempts that   *)
(* were delivered or raised                                                   *)
Attempted == [i \in DOMAIN attempts |-> attempts[i][1]]
Delivered == {i \in DOMAIN attempts : attempts[i][2]}
Raised == {i \in DOMAIN attempts : ~attempts[i][2]}

\* C16: a finished broadcast_to_all_participants whose directory query
\* succeeded has attempted every active participant exactly once, whatever
\* sends raised among them, and returns the pair of the number of sends
\* delivered and the number of sends that raised, which add up to the number of
\* recipients.
C16_BroadcastAttemptsAll ==
    (cast_pc = "returned" /\ cast_listed) =>
        /\ Attempted = Ascending(DOMAIN participants)
        /\ cast_ret = <<Cardinality(Delivered), Cardinality(Raised)>>
        /\ cast_ret[1] + cast_ret[2] = Cardinality(DOMAIN participants)

\* a finished broadcast in which the send to the first recipient raised and a
\* later send was delivered
C16_Witness ==
    /\ cast_pc = "returned"
    /\ cast_listed
    /\ Len(attempts) = MaxRecipients
    /\ ~attempts[1][2]
    /\ attempts[Len(attempts)][2]
    /\ cast_ret[2] >= 1

\* C17: a stop_event() on a running scheduler clears is_running, empties the
\* task set and cancels every timed action that had not finished, all in one
\* step that no step of a timed action interrupts.
C17_StopCancelsEveryAction ==
    [][\A c \in Calls :
         (StopBegins(c) /\ is_running) =>
            /\ ~is_running'
            /\ tasks' = << >>
            /\ \A t \in TaskIds : ~Done(t) => task'[t].st = "cancelled"]_vars

\* the names of the timed actions of one timetable
TimetableNames ==
    {StartName(n) : n \in 1..NStations}
      \cup {TransitionName(n) : n \in 1..(NStations - 1)}
      \cup {CompletionName}

\* call c is a start_event that returns True in this step
StartReturnsTrue(c) == op'[c] = "start" /\ ret[c] # "True" /\ ret'[c] = "True"

\* no task created earlier is still unfinished
NoLeftover == \A t \in TaskIds : Done(t)

\* C18: an accepted start_event() sets is_running, resets current_station to 0
\* and records the given start instant or the current time; when it returns
\* True it has created exactly 2N tasks for N stations (N station starts, N-1
\* transitions, 1 completion), and on a scheduler without unfinished earlier
\* tasks these are all the unfinished tasks and all that self.tasks holds.
C18_StartArmsTwoPerStation ==
    [][\A c \in Calls :
         /\ (StartBegins(c) /\ ~is_running) =>
               /\ is_running'
               /\ current_station' = 0
               /\ event_start_time' \in {Some(now)} \cup (StartArgs \ {None})
         /\ StartReturnsTrue(c) =>
               LET new == DOMAIN task' \ TaskIds
               IN  /\ new = {<<c, nm>> : nm \in TimetableNames}
                   /\ Cardinality(new) = 2 * NStations
                   /\ Cardinality({t \in new : t[2][1] = "start"}) = NStations
                   /\ Cardinality({t \in new : t[2][1] = "transition"})
                        = NStations - 1
                   /\ Cardinality({t \in new : t[2][1] = "completion"}) = 1
                   /\ NoLeftover =>
                         /\ {t \in DOMAIN task' : task'[t].st \notin
                                                    {"done", "cancelled"}} = new
                         /\ tasks' = [nm \in TimetableNames |-> c]]_vars

\* a second start has returned True after the first timetable ran to its end,
\* and its tasks are the only unfinished ones
C18_Witness ==
    \E c \in Calls :
       /\ c > 1
       /\ op[c] = "start" /\ ret[c] = "True"
       /\ current_station = 0
       /\ {t \in TaskIds : ~Done(t)} = {<<c, nm>> : nm \in TimetableNames}
       /\ \E t \in TaskIds : RunOf(t) < c /\ task[t].st = "done"

\* u's callback was invoked within the current run: is_running is raised only
\* by an accepted start_event, so every invocation made while curRun is the
\* latest accepted start belongs to that run, and a task that this start armed
\* can have fired in no other
FiredInCurrentRun(u) == task[u].cb /\ RunOf(u) = curRun

\* C19: within one run each timed action fires at most once: no callback is
\* invoked for a station start, a transition or the completion for which the
\* same callback was already invoked earlier in the current run.
C19_FiresOncePerRun ==
    [][\A t \in TaskIds :
         Invoked(t) =>
            ~\E u \in TaskIds \ {t} : u[2] = t[2] /\ FiredInCurrentRun(u)]_vars

\* the task object self.tasks holds under the name nm
Held(nm) == <<tasks[nm], nm>>

\* C20: a timed action leaves self.tasks when it fires or is cancelled: every
\* task that self.tasks holds is still waiting to fire, so self.tasks is empty
\* once a run was stopped or its completion action has fired.
C20_PendingSetHoldsOnlyPending ==
    \A nm \in DOMAIN tasks : Pending(Held(nm))

\* the start_event of call c has returned True and its completion instant lies
\* within the modelled time
Armed(c) ==
    /\ op[c] = "start" /\ ret[c] = "True"
    /\ <<c, CompletionName>> \in TaskIds
    /\ task[<<c, CompletionName>>].fire <= MaxTime

\* the completion task of call c has run its body, or was cancelled
CompletionRan(c) ==
    /\ <<c, CompletionName>> \in TaskIds
    /\ task[<<c, CompletionName>>].st \in {"callback", "done", "cancelled"}

\* C21: a started run that is never stopped comes to its completion action,
\* whatever the station and transition callbacks do; when event_completed is
\* invoked is_running becomes false, station_started has been invoked for
\* every station 1..N, and event_completed was not invoked before in the run.
C21_CompletionEventuallyFires ==
    /\ \A c \in Calls : Armed(c) ~> (stoppedAt[c] # None \/ CompletionRan(c))
    /\ [][\A t \in TaskIds :
            (t[2] = CompletionName /\ Invoked(t)) =>
               /\ ~is_running'
               /\ NeverStopped(curRun) =>
                     \A n \in 1..NStations :
                        \E u \in TaskIds : u[2] = StartName(n) /\ task[u].cb
               /\ ~\E u \in TaskIds \ {t} :
                       u[2] = CompletionName /\ FiredInCurrentRun(u)]_vars

\* the timed action t runs its body in this step with the scheduler running
Fires(t) == Pending(t) /\ is_running /\ task'[t].st \in {"callback", "done"}

\* the station the clock gives for the instant t of a run begun at start: the
\* largest n whose start, by the offsets of get_station_timing, is not after t
DerivedStation(start, t) ==
    LET begun == {n \in 1..NStations : start + (n - 1) * TOTAL_CYCLE_MINUTES <= t}
    IN  IF begun = {} THEN 0 ELSE CHOOSE n \in begun : \A m \in begun : m <= n

\* C22: when a station-start action fires in a running event, current_station
\* after the update is the station the clock derives from now and the start
\* instant, also when the action wakes late.
C22_CursorAgreesWithClock ==
    [][\A t \in TaskIds :
         (t[2][1] = "start" /\ Fires(t) /\ event_start_time # None) =>
            current_station' = DerivedStation(Val(event_start_time), now)]_vars

\* C23: current_station is written only by an accepted start_event, which
\* resets it to 0, and by a firing station-start action, which sets it to its
\* station number; a firing transition or completion action, a rejected
\* start_event and stop_event leave it unchanged.
C23_CursorWriters ==
    [][/\ current_station' # current_station =>
             \/ \E c \in Calls :
                   StartBegins(c) /\ ~is_running /\ current_station' = 0
             \/ \E t \in TaskIds :
                   t[2][1] = "start" /\ Fires(t) /\ current_station' = t[2][2]
       /\ \A t \in TaskIds :
             (t[2][1] # "start" /\ task'[t] # task[t]) =>
                current_station' = current_station
       /\ \A c \in Calls :
             (StopBegins(c) \/ (pc[c] = "stop_cb" /\ pc'[c] = "returned")) =>
                current_station' = current_station]_vars

\* a transition action has fired, and a stop was accepted, after the cursor
\* had left 0
C23_Witness ==
    /\ current_station > 0
    /\ \E t \in TaskIds : t[2][1] = "transition" /\ task[t].cb
    /\ \E c \in Calls : op[c] = "stop" /\ ret[c] = "True"

\* the callback of the timed action t ends in this step, by a return or by an
\* exception, which ends the task either way
CallbackEnds(t) ==
    /\ task[t].st \in {"created", "sleeping", "woken", "callback"}
    /\ task'[t].st = "done"
    /\ task'[t].cb

\* C24: an exception raised by the callback of a timed action ends that task
\* only: is_running keeps its value unless the action is the completion
\* action, every other task is left as it was, still waiting or runnable, and
\* self.tasks is unchanged.
C24_CallbackExceptionIsLocal ==
    [][\A t \in TaskIds :
         CallbackEnds(t) =>
            /\ is_running' = is_running \/ (t[2] = CompletionName /\ Fires(t))
            /\ \A u \in TaskIds \ {t} : task'[u] = task[u]
            /\ WithoutTasks(ready', {t}) = WithoutTasks(ready, {t})
            /\ tasks' = tasks]_vars

\* after the callback of one timed action has ended, a later action of the
\* same timetable has invoked its callback and the event is still running
C24_Witness ==
    /\ is_running
    /\ \E t, u \in TaskIds :
          /\ RunOf(t) = RunOf(u)
          /\ task[t].st = "done" /\ task[t].cb
          /\ task[u].fire > task[t].fire /\ task[u].cb
          /\ task[u].fire >= 0

\* C25: get_station_timing(i) does not depend on the run state: in every state
\* of the scheduler, before the first start too, it returns the start and end
\* time of every station i in 1..N.
C25_TimingInEveryState ==
    timing # << >> =>
        \A i \in 1..TOTAL_STATIONS :
            {"start_time", "end_time"} \subseteq DOMAIN timing[i]

\* C26: get_current_status() and get_station_timing() are pure reads: a call
\* leaves event_start_time, is_running, current_station, self.tasks, the
\* callback table, the tasks and the loop's queue unchanged, and delivers its
\* result in the step of the call, computed from the state it finds, whatever
\* timers are pending.
C26_ReadsArePure ==
    [][/\ UNCHANGED <<event_start_time, is_running, current_station, tasks,
                      callbacks, task, ready, now>>
       /\ \/ status' = get_current_status /\ timing' = timing
          \/ /\ status' = status
             /\ timing' = [i \in 1..TOTAL_STATIONS |->
                             get_station_timing(i, TOTAL_STATIONS)]]_vars

\* both reads were made on a running scheduler whose cursor has left 0 while
\* timed actions sleep
C26_Witness ==
    /\ is_running /\ current_station > 0
    /\ \E t \in TaskIds : task[t].st = "sleeping"
    /\ status # << >> /\ status.current_station = current_station
    /\ timing # << >>

C29_RegistryFollowsScheduler ==
    [][(cmd' # None /\ cmd'.op \in {"start_event", "stop_event"}
          /\ (active_event <=> is_running))
       => (active_event' <=> is_running')]_vars

\* C28: whenever the scheduler is running and no start_event() call is in
\* progress, the timetable of the running event has been armed: each of its
\* 2N timed actions exists, pending, firing or finished; a start_event() that
\* fails in its event_started callback does not leave the scheduler running
\* without timed actions.
C28_RunningMeansArmed ==
    (is_running /\ \A c \in Calls : pc[c] # "start_cb") =>
        {<<curRun, nm>> : nm \in TimetableNames} \subseteq TaskIds

\* a step of the plain broadcast or of the transition fan-out
SendOnlyStep == plainVars' # plainVars \/ transVars' # transVars

\* C30: only station-start fan-outs write the directory: no step of
\* broadcast_transition_to_all or of broadcast_to_all_participants changes any
\* participant's current_station, and a step that does change one is a pass
\* of the loop of broadcast_station_to_all(n), writes n and nothing else, and
\* writes it for the participant being notified.
C30_OnlyStationFanoutWrites ==
    [][/\ SendOnlyStep => participants' = participants
       /\ \A r \in DOMAIN participants :
             participants'[r] # participants[r] =>
                 /\ fan_pc = "loop" /\ fan_list # << >>
                 /\ r = Head(fan_list)
                 /\ participants'[r] = fan_station
                 /\ sent_count' = sent_count + 1
       /\ DOMAIN participants' = DOMAIN participants]_vars

\* a transition fan-out to station 3 and a plain broadcast have both notified
\* every participant, and the directory holds only what station fan-outs
\* wrote: one participant at station 1, none at station 3
C30_Witness ==
    /\ trans_ret = Some(MaxRecipients) /\ trans_to = 3
    /\ cast_ret = <<MaxRecipients, 0>>
    /\ fan_ret = Some(MaxRecipients) /\ fan_station = 1
    /\ \E r \in DOMAIN participants : participants[r] = 1
    /\ \A r \in DOMAIN participants : participants[r] # 3

\* C31: a status read while the scheduler is running reports
\* remaining_minutes = max(0, total_duration - elapsed) with
\* 0 <= remaining_minutes <= total_duration, elapsed_minutes >= 0 and
\* 0 <= progress_percentage <= 100, whatever the current time and the start
\* instant are, a start instant supplied in the future included.
C31_StatusNumbersInRange ==
    (status # << >> /\ status.is_running) =>
        LET total_duration == TOTAL_EVENT_DURATION_MINUTES(NStations)
            elapsed == now - Val(event_start_time)
        IN  /\ status.remaining_minutes = Max(0, total_duration - elapsed)
            /\ 0 <= status.remaining_minutes
            /\ status.remaining_minutes <= total_duration
            /\ status.elapsed_minutes >= 0
            /\ 0 <= status.progress_percentage[1]
            /\ status.progress_percentage[1] <= 100 * status.progress_percentage[2]

\* C32: the run registry never holds more than one event with status
\* active, and a create_event that returns successfully (its row was
\* inserted) leaves exactly one active event, also when the deactivation of
\* the previous active events failed.
C32_OneActiveEvent ==
    [][/\ Cardinality(ActiveEvents(events')) <= 1
       /\ Len(events') > Len(events) =>
             ActiveEvents(events') = {Len(events')}]_vars

\* the users the allow-list check turns away: those without a username and
\* those whose username, lower-cased and without a leading @, is not "admin"
Unauthorised(user) == user = None \/ Val(user) \notin {"admin", "@Admin"}

\* C33: a start, stop, status or report command from a user without a
\* username or not on the admin allow-list changes nothing: the scheduler, the
\* run registry and the participant directory are unchanged, no broadcast is
\* sent, and the command is answered with the refusal.
C33_UnauthorisedChangesNothing ==
    [][Unauthorised(cmd'.user) =>
          /\ UNCHANGED <<runVars, active_event, events, participants, rows,
                         fanVars, castVars, shown>>
          /\ answer' = IF cmd'.user = None THEN "need_username"
                       ELSE "not_admin"]_vars

\* a guest's stop command was refused while the registry holds an active
\* event, after the administrator's stop command had failed to update the
\* registry and had broadcast the stop
C33_Witness ==
    /\ cmd # None /\ cmd.op = "stop_event" /\ cmd.user = Some("guest")
    /\ answer = "not_admin"
    /\ active_event
    /\ cast_pc = "returned"

\* C34: after any sequence of create_participant calls the stored
\* participants have pairwise distinct participant numbers and pairwise
\* distinct telegram ids, and a call for a telegram id that is already
\* registered returns the existing participant and inserts no record.
C34_ParticipantsDistinct ==
    [][/\ \A i, j \in DOMAIN rows' :
             i # j => /\ rows'[i].telegram_id # rows'[j].telegram_id
                      /\ rows'[i].participant_number # rows'[j].participant_number
       /\ get_participant_by_telegram_id(rows, registered'.telegram_id) # None =>
             /\ rows' = rows
             /\ registered'.result =
                    get_participant_by_telegram_id(rows, registered'.telegram_id)]_vars

====
